---- MODULE Spec2Model ----
(***************************************************************************)
(* A model of the generic vector of src/vector.c: an array of void*        *)
(* slots with a size and a capacity, and three callbacks (copy, destroy,    *)
(* default-construct) that own the payloads.                               *)
(*                                                                         *)
(* Pointers to payloads are the indices 1..Len(heap) of the heap, in the    *)
(* order the callbacks allocated them; NULL is 0.  Memory outside the      *)
(* allocated block this->array[0 .. capacity-1] is foreign: a read of it   *)
(* yields a word the action picks from Garbage, a write to it is not seen *)
(* by later reads of the block, and either may end the process.            *)
(***************************************************************************)
EXTENDS Integers, Naturals, Sequences, FiniteSets, TLC

\* ---- bounds of the model ---------------------------------------------
SIZE_BITS == 6          \* width of size_t in the model
MaxAlloc == 2           \* payloads the callbacks may allocate in one run
MaxSize == 9           \* growing operations are offered while size < MaxSize
MaxN == 9              \* largest argument offered to reserve / resize
MaxForeign == 1         \* foreign words past the block whose reads return garbage

\* ---- program constants -----------------------------------------------
INITIAL_CAPACITY == 8
GROWTH_FACTOR == 2
NULL == 0

\* ---- modelling values --------------------------------------------------
SIZE_MOD == 2 ^ SIZE_BITS
WILD == 0 - 1           \* a foreign word that is no payload of this run
DIVERGES == 0 - 1       \* get_new_capacity never returns
ASSERT_FAILS == 0 - 2   \* an assert of the operation fails
Values == {11}          \* contents the caller passes by reference
DefaultVal == 10        \* content of a default-constructed payload

VARIABLES
    array,      \* this->array: the allocated block, slots 0 .. capacity-1
    size,       \* this->size
    capacity,   \* this->capacity
    heap,       \* the payloads the callbacks allocated: content, releases
    status,     \* "ok", or how the run ended: "aborted", "hung", "destroyed"
    last,       \* the call that led here and what it invoked and touched
    log,        \* the elements pushed, while only vector_push_back was called,
                \* and the n of a vector_reserve(n) that only appends followed
    gnc         \* a call of get_new_capacity: its target and what it returned
vars == <<array, size, capacity, heap, status, last, log, gnc>>

\* ---- the callbacks (bound at vector_create, never changed) ------------
\* copy_constructor(elem): a freshly allocated payload holding elem's content
copy_constructor(s, val) ==
    [s EXCEPT !.heap = Append(@, [val |-> val, nd |-> 0]), !.ncopy = @ + 1]

\* default_constructor(): a freshly allocated payload holding the default
default_constructor(s) ==
    [s EXCEPT !.heap = Append(@, [val |-> DefaultVal, nd |-> 0])]

\* destructor(p): releases p; NULL is tolerated; nd counts the releases of p
destructor(s, p) ==
    LET s1 == [s EXCEPT !.ndestroy = @ + 1]
    IN  IF p = NULL THEN s1
        ELSE IF p = WILD THEN [s1 EXCEPT !.wild = TRUE]
        ELSE [s1 EXCEPT !.heap[p].nd = IF @ < 2 THEN @ + 1 ELSE 2]

\* ---- slot access -------------------------------------------------------
InBlock(s, i) == i >= 0 /\ i < s.capacity

\* which garbage word a foreign index reads: the words right after the
\* block, the word right before it (index -1 = SIZE_MOD - 1), or unmapped
ForeignWord(s, i) ==
    IF i >= s.capacity /\ i - s.capacity < MaxForeign THEN i - s.capacity
    ELSE IF i = SIZE_MOD - 1 THEN MaxForeign
    ELSE DIVERGES

\* this->array[i] as an rvalue
Rd(s, i, gs) ==
    IF InBlock(s, i) THEN s.array[i]
    ELSE IF ForeignWord(s, i) = DIVERGES THEN WILD
    ELSE gs[ForeignWord(s, i)]

\* the access to this->array[i] itself (bounds bookkeeping)
Touch(s, i) ==
    IF InBlock(s, i) THEN s
    ELSE IF ForeignWord(s, i) = DIVERGES THEN [s EXCEPT !.oob = TRUE, !.segv = TRUE]
    ELSE [s EXCEPT !.oob = TRUE]

\* this->array[i] = v
Wr(s, i, v) ==
    IF InBlock(s, i) THEN [s EXCEPT !.array[i] = v] ELSE Touch(s, i)

\* element ? (*this->copy_constructor)(element) : NULL, stored at index i
StoreCopy(s, i, element) ==
    IF element = NULL THEN Wr(s, i, NULL)
    ELSE LET s1 == copy_constructor(s, element)
         IN  Wr(s1, i, Len(s1.heap))

\* ---- capacity ----------------------------------------------------------
RECURSIVE gnc_loop(_, _)
gnc_loop(new_capacity, target) ==
    IF ~(new_capacity < target) THEN new_capacity
    ELSE IF new_capacity = 0 THEN DIVERGES
    ELSE gnc_loop((new_capacity * GROWTH_FACTOR) % SIZE_MOD, target)

\* get_new_capacity if it doubled once more than the target needs
get_new_capacity_twice(target) == gnc_loop(1, (target * GROWTH_FACTOR) % SIZE_MOD)

get_new_capacity(target) == gnc_loop(1, target)

\* vector_reserve if the grown block did not keep the old slots
vector_reserve_fresh(s, n) ==
    IF n <= s.capacity THEN s
    ELSE LET cap == get_new_capacity(n)
         IN  IF cap = DIVERGES THEN [s EXCEPT !.hung = TRUE]
             ELSE [s EXCEPT !.array = [i \in 0..(cap - 1) |-> NULL],
                            !.capacity = cap]

vector_reserve(s, n) ==
    IF n <= s.capacity THEN s
    ELSE LET cap == get_new_capacity(n)
         IN  IF cap = DIVERGES THEN [s EXCEPT !.hung = TRUE]
             ELSE [s EXCEPT
                     !.array = [i \in 0..(cap - 1) |->
                                  IF i < s.capacity THEN s.array[i] ELSE NULL],
                     !.capacity = cap]

\* vector_push_back if it grew the block one element before it is full
vector_push_back_early(s, element) ==
    LET s1 == IF s.size + 1 >= s.capacity
              THEN vector_reserve(s, (s.capacity + 1) % SIZE_MOD) ELSE s
        s2 == StoreCopy(s1, s1.size, element)
    IN IF s1.hung THEN s1 ELSE [s2 EXCEPT !.size = (@ + 1) % SIZE_MOD]

vector_push_back(s, element) ==
    LET s1 == IF s.size = s.capacity
              THEN vector_reserve(s, (s.capacity + 1) % SIZE_MOD)
              ELSE s
        s2 == StoreCopy(s1, s1.size, element)
    IN  IF s1.hung THEN s1
        ELSE [s2 EXCEPT !.size = (@ + 1) % SIZE_MOD]


\* ---- resizing ----------------------------------------------------------
\* while (this->size < n) { ele = default(); push_back(ele); destroy(ele); }
RECURSIVE resize_grow(_, _)
resize_grow(s, n) ==
    IF ~(s.size < n) \/ s.hung \/ s.segv THEN s
    ELSE LET s1 == default_constructor(s)
             ele == Len(s1.heap)
             s2 == vector_push_back(s1, s1.heap[ele].val)
         IN  resize_grow(destructor(s2, ele), n)

\* for (i = n; i < this->size; i++) { destroy(array[i]); array[i] = NULL; }
RECURSIVE resize_shrink(_, _, _)
resize_shrink(s, i, gs) ==
    IF ~(i < s.size) \/ s.segv THEN s
    ELSE resize_shrink(Wr(destructor(Touch(s, i), Rd(s, i, gs)), i, NULL),
                       i + 1, gs)

\* the growing loop if it did not destroy the default-constructed temporary
RECURSIVE resize_grow_leaky(_, _)
resize_grow_leaky(s, n) ==
    IF ~(s.size < n) \/ s.hung \/ s.segv THEN s
    ELSE LET s1 == default_constructor(s)
             ele == Len(s1.heap)
         IN  resize_grow_leaky(vector_push_back(s1, s1.heap[ele].val), n)

\* vector_resize with that growing loop
vector_resize_leaky(s, n, gs) ==
    LET s1 == IF n > s.capacity THEN vector_reserve(s, n) ELSE s
    IN  IF s1.hung THEN s1
        ELSE IF n > s1.size THEN resize_grow_leaky(s1, n)
        ELSE IF n < s1.size
             THEN LET s2 == resize_shrink(s1, n, gs)
                  IN  IF s2.segv THEN s2 ELSE [s2 EXCEPT !.size = n]
        ELSE s1

vector_resize(s, n, gs) ==
    LET s1 == IF n > s.capacity THEN vector_reserve(s, n) ELSE s
    IN  IF s1.hung THEN s1
        ELSE IF n > s1.size THEN resize_grow(s1, n)
        ELSE IF n < s1.size
             THEN LET s2 == resize_shrink(s1, n, gs)
                  IN  IF s2.segv THEN s2 ELSE [s2 EXCEPT !.size = n]
        ELSE s1

\* ---- element access ----------------------------------------------------
vector_set(s, position, element, gs) ==
    IF position > s.size THEN s
    ELSE IF position < s.size
         THEN StoreCopy(destructor(Touch(s, position), Rd(s, position, gs)),
                        position, element)
    ELSE LET s1 == IF position = s.capacity
                   THEN vector_resize(s, position, gs)
                   ELSE s
             s2 == StoreCopy(s1, position, element)
         IN  [s2 EXCEPT !.size = (@ + 1) % SIZE_MOD]

\* assert(position < this->size); return this->array[position];
vector_get(s, position, gs) ==
    IF ~(position < s.size) THEN ASSERT_FAILS ELSE Rd(s, position, gs)

vector_pop_back(s, gs) ==
    LET s1 == [s EXCEPT !.size = (@ - 1) % SIZE_MOD]
        s2 == destructor(Touch(s1, s1.size), Rd(s1, s1.size, gs))
    IN  Wr(s2, s2.size, NULL)

\* for (i = this->size; i >= position; i--) array[i] = array[i-1];
RECURSIVE insert_shift(_, _, _, _)
insert_shift(s, i, position, gs) ==
    IF ~(i >= position) \/ s.segv THEN s
    ELSE LET from == (i - 1) % SIZE_MOD
         IN  insert_shift(Wr(Touch(s, from), i, Rd(s, from, gs)),
                          from, position, gs)

vector_insert(s, position, element, gs) ==
    LET s1 == IF s.size = s.capacity
              THEN vector_reserve(s, (s.capacity + 1) % SIZE_MOD)
              ELSE s
        s2 == insert_shift(s1, s1.size, position, gs)
        s3 == StoreCopy(s2, position, element)
    IN  IF s1.hung THEN s1
        ELSE IF s2.segv THEN s2
        ELSE [s3 EXCEPT !.size = (@ + 1) % SIZE_MOD]

\* for (i = position; i < this->size; i++) array[i] = array[i+1];
RECURSIVE erase_shift(_, _, _)
erase_shift(s, i, gs) ==
    IF ~(i < s.size) \/ s.segv THEN s
    ELSE LET from == (i + 1) % SIZE_MOD
         IN  erase_shift(Wr(Touch(s, from), i, Rd(s, from, gs)), i + 1, gs)

\* vector_erase if it returned early only for position > size
vector_erase_at_size(s, position, gs) ==
    IF position > s.size THEN s
    ELSE LET s1 == destructor(Touch(s, position), Rd(s, position, gs))
             s2 == erase_shift(s1, position, gs)
         IN  IF s2.segv THEN s2
             ELSE [s2 EXCEPT !.size = (@ - 1) % SIZE_MOD]

vector_erase(s, position, gs) ==
    IF position >= s.size THEN s
    ELSE LET s1 == destructor(Touch(s, position), Rd(s, position, gs))
             s2 == erase_shift(s1, position, gs)
         IN  IF s2.segv THEN s2
             ELSE [s2 EXCEPT !.size = (@ - 1) % SIZE_MOD]

\* for (i = 0; i < this->size; i++) if (array[i]) { destroy; array[i] = NULL; }
RECURSIVE clear_loop(_, _, _)
clear_loop(s, i, gs) ==
    IF ~(i < s.size) \/ s.segv THEN s
    ELSE LET p == Rd(s, i, gs)
             s1 == Touch(s, i)
         IN  clear_loop(IF p # NULL THEN Wr(destructor(s1, p), i, NULL) ELSE s1,
                        i + 1, gs)

vector_clear(s, gs) ==
    LET s1 == clear_loop(s, 0, gs)
    IN  IF s1.segv THEN s1 ELSE [s1 EXCEPT !.size = 0]

\* for (i = 0; i < this->capacity; i++) if (array[i]) { destroy; array[i] = NULL; }
RECURSIVE destroy_loop(_, _)
destroy_loop(s, i) ==
    IF ~(i < s.capacity) THEN s
    ELSE destroy_loop(IF s.array[i] # NULL
                      THEN Wr(destructor(s, s.array[i]), i, NULL)
                      ELSE s,
                      i + 1)

vector_destroy(s) == destroy_loop(s, 0)

\* ---- the state machine -------------------------------------------------
\* no vector_reserve(n) with size <= n is the last call that was no append
NoReserve == 0 - 1

NoOp == [op |-> "create", rel |-> "none", elem |-> NULL,
         ncopy |-> 0, ndestroy |-> 0, oob |-> FALSE, wild |-> FALSE]

\* vector_create: size 0, INITIAL_CAPACITY slots, all NULL
vector_create ==
    /\ array = [i \in 0..(INITIAL_CAPACITY - 1) |-> NULL]
    /\ size = 0
    /\ capacity = INITIAL_CAPACITY
    /\ heap = <<>>
    /\ status = "ok"
    /\ last = NoOp
    /\ log = [only |-> TRUE, pushed |-> <<>>, reserved |-> NoReserve]

\* get_new_capacity was not called
NotCalled == 0 - 3

Init == vector_create /\ gnc = [target |-> 0, new_capacity |-> NotCalled]

\* the vector as an operation finds it
Cur == [array |-> array, size |-> size, capacity |-> capacity, heap |-> heap,
        ncopy |-> 0, ndestroy |-> 0, oob |-> FALSE, wild |-> FALSE,
        segv |-> FALSE, hung |-> FALSE]

Elems == Values \cup {NULL}
\* arguments offered to reserve and resize
NArgs == {0, 1, INITIAL_CAPACITY - 1, INITIAL_CAPACITY, MaxN}
\* a foreign word is NULL or some word that is no slot value of this vector
Garbage == {NULL, WILD}
AllForeign == [0..MaxForeign -> Garbage]
NoGarbage == [k \in 0..MaxForeign |-> NULL]
\* the contents of the foreign words an operation may read
Foreign(needed) == IF needed THEN AllForeign ELSE {NoGarbage}

\* how an argument compares with the size (or capacity) the call finds
Rel(a, b) == IF a < b THEN "lt" ELSE IF a = b THEN "eq" ELSE "gt"

\* the vector an operation leaves
Outcome(r) ==
    /\ array' = r.array
    /\ size' = r.size
    /\ capacity' = r.capacity
    /\ heap' = r.heap

\* the calls remembered after the call op: n is the argument of a
\* vector_reserve(n) that found size <= n, NoReserve for every other call
Logged(op, elem, n) ==
    IF op = "push_back"
    THEN [log EXCEPT !.pushed = IF log.only THEN Append(@, elem) ELSE <<>>]
    ELSE [only |-> FALSE, pushed |-> <<>>, reserved |-> n]

\* the state an operation leaves; undefined behaviour may end the process
Effect(r, op, rel, elem) ==
    /\ Outcome(r)
    /\ \E crash \in (IF r.oob \/ r.wild THEN BOOLEAN ELSE {FALSE}) :
         status' = IF r.hung THEN "hung"
                   ELSE IF r.segv \/ crash THEN "aborted"
                   ELSE IF op = "destroy" THEN "destroyed"
                   ELSE "ok"
    /\ last' = [op |-> op, rel |-> rel, elem |-> elem, ncopy |-> r.ncopy,
                ndestroy |-> r.ndestroy, oob |-> r.oob, wild |-> r.wild]
    /\ UNCHANGED gnc

Commit(r, op, rel, elem) ==
    /\ Effect(r, op, rel, elem)
    /\ log' = Logged(op, elem, NoReserve)

CanCopy(element) == element = NULL \/ Len(heap) < MaxAlloc

Call_push_back ==
    /\ status = "ok" /\ size < MaxSize
    /\ \E element \in Elems :
         /\ CanCopy(element)
         /\ Commit(vector_push_back(Cur, element), "push_back", "none", element)

Call_pop_back ==
    /\ status = "ok" /\ size > 0
    /\ \E gs \in Foreign(size > capacity) :
         Commit(vector_pop_back(Cur, gs), "pop_back", "none", NULL)

Call_insert ==
    /\ status = "ok" /\ size < MaxSize
    /\ \E position \in 0..size, element \in Elems :
         /\ CanCopy(element)
         /\ \E gs \in Foreign(position = 0 \/ size > capacity) :
              Commit(vector_insert(Cur, position, element, gs),
                     "insert", Rel(position, size), element)

Call_erase ==
    /\ status = "ok"
    /\ \E position \in 0..(size + 1) :
         \E gs \in Foreign(position < size /\ size >= capacity) :
            Commit(vector_erase(Cur, position, gs),
                   "erase", Rel(position, size), NULL)

Call_set ==
    /\ status = "ok"
    /\ \E position \in 0..(size + 1), element \in Elems :
         /\ CanCopy(element)
         /\ position = size => size < MaxSize
         /\ \E gs \in Foreign(position < size /\ position >= capacity) :
              Commit(vector_set(Cur, position, element, gs),
                     "set", Rel(position, size), element)

Call_resize ==
    /\ status = "ok"
    /\ \E n \in NArgs :
         /\ n > size => Len(heap) + 2 * (n - size) <= MaxAlloc
         /\ \E gs \in Foreign(n < size /\ size > capacity) :
              Commit(vector_resize(Cur, n, gs), "resize", Rel(n, size), NULL)

Call_reserve ==
    /\ status = "ok"
    /\ \E n \in NArgs :
         /\ Effect(vector_reserve(Cur, n), "reserve", Rel(n, capacity), NULL)
         /\ log' = Logged("reserve", NULL, IF size <= n THEN n ELSE NoReserve)

Call_clear ==
    /\ status = "ok"
    /\ \E gs \in Foreign(size > capacity) :
         Commit(vector_clear(Cur, gs), "clear", "none", NULL)

Call_destroy ==
    /\ status = "ok"
    /\ Commit(vector_destroy(Cur), "destroy", "none", NULL)

\* every call that meets the input constraints of its operation
Next ==
    \/ Call_push_back
    \/ Call_pop_back
    \/ Call_insert
    \/ Call_erase
    \/ Call_set
    \/ Call_resize
    \/ Call_reserve
    \/ Call_clear
    \/ Call_destroy

Spec == Init /\ [][Next]_vars

\* vector_pop_back on an empty vector, which its input constraint forbids
Misuse_pop_back ==
    /\ status = "ok" /\ size = 0
    /\ \E gs \in AllForeign :
         Commit(vector_pop_back(Cur, gs), "pop_back", "none", NULL)

\* a client that appends, removes the last element and clears, and that
\* may call vector_pop_back on an empty vector
NextMisuse ==
    \/ Call_push_back
    \/ Call_pop_back
    \/ Call_clear
    \/ Misuse_pop_back

SpecMisuse == Init /\ [][NextMisuse]_vars

\* a client that reserves, appends, stores and removes the last element
NextReserve ==
    \/ Call_reserve
    \/ Call_push_back
    \/ Call_set
    \/ Call_pop_back

SpecReserve == Init /\ [][NextReserve]_vars

\* vector_erase at a position that is no index of an element
Call_erase_beyond ==
    /\ status = "ok"
    /\ \E position \in size..(size + 1) :
         Commit(vector_erase(Cur, position, NoGarbage),
                "erase", Rel(position, size), NULL)

\* a client that appends, stores at every position up to size + 1, removes
\* the last element, and erases at positions >= size only
NextBeyond ==
    \/ Call_push_back
    \/ Call_pop_back
    \/ Call_set
    \/ Call_erase_beyond

SpecBeyond == Init /\ [][NextBeyond]_vars

\* a client that appends, inserts and removes elements
NextGrow ==
    \/ Call_push_back
    \/ Call_insert
    \/ Call_pop_back
    \/ Call_erase
    \/ Call_clear

SpecGrow == Init /\ [][NextGrow]_vars

\* a growing vector_resize that may allocate twice the payloads other calls
\* may, so that it grows by more than one slot
Call_resize_grow ==
    /\ status = "ok"
    /\ \E n \in NArgs :
         /\ n > size
         /\ Len(heap) + 2 * (n - size) <= 2 * MaxAlloc
         /\ Commit(vector_resize(Cur, n, NoGarbage), "resize", Rel(n, size), NULL)

\* a client that resizes, appends, stores and removes the last element
NextResize ==
    \/ Call_resize_grow
    \/ Call_resize
    \/ Call_push_back
    \/ Call_pop_back
    \/ Call_set

SpecResize == Init /\ [][NextResize]_vars

\* every target of the size type, for one call of get_new_capacity
Targets == 0..(SIZE_MOD - 1)

InitCapacity ==
    /\ vector_create
    /\ gnc \in [target : Targets, new_capacity : {NotCalled}]

Call_get_new_capacity ==
    /\ gnc.new_capacity = NotCalled
    /\ gnc' = [gnc EXCEPT !.new_capacity = get_new_capacity(gnc.target)]
    /\ UNCHANGED <<array, size, capacity, heap, status, last, log>>

\* vector_reserve(v, target) on the new vector
Call_reserve_target ==
    /\ status = "ok" /\ last.op = "create"
    /\ Commit(vector_reserve(Cur, gnc.target),
              "reserve", Rel(gnc.target, capacity), NULL)

NextCapacity ==
    \/ Call_get_new_capacity
    \/ Call_reserve_target

SpecCapacity == InitCapacity /\ [][NextCapacity]_vars

\* a new vector to which elements are only appended
SpecPush == Init /\ [][Call_push_back]_vars

TypeOK ==
    /\ size \in 0..(SIZE_MOD - 1)
    /\ capacity \in 1..(SIZE_MOD - 1)
    /\ DOMAIN array = 0..(capacity - 1)
    /\ status \in {"ok", "aborted", "hung", "destroyed"}

\* ---- properties ---------------------------------------------------------
IsPowerOf2(n) == \E k \in 0..SIZE_BITS : n = GROWTH_FACTOR ^ k

\* the payloads that were allocated and not yet released
LivePayloads == {p \in 1..Len(heap) : heap[p].nd = 0}

\* the slots of the block below size
UsedSlots == {i \in 0..(capacity - 1) : i < size}

\* the non-null words the slots below size hold
Referenced == {array[i] : i \in UsedSlots} \ {NULL}

\* C1: in every state reachable through the operations, capacity is a power
\* of 2 and capacity >= size.
C1_CapacityPow2GeSize ==
    status = "ok" => IsPowerOf2(capacity) /\ capacity >= size

\* C6: in every reachable state every slot i with size <= i < capacity is
\* NULL.
C6_UnusedSlotsNull ==
    status = "ok" => \A i \in 0..(capacity - 1) : i >= size => array[i] = NULL

\* C8: ownership is exact after every operation: the payloads allocated and
\* not yet released are exactly the non-null payloads the slots [0, size)
\* hold, each held by exactly one slot; no payload is released twice and
\* nothing that is no payload is released; after vector_destroy no payload
\* remains unreleased.
C8_ExactOwnership ==
    /\ status = "ok" =>
         /\ Referenced \subseteq 1..Len(heap)
         /\ LivePayloads = Referenced
         /\ \A i, j \in UsedSlots : array[i] # NULL /\ array[i] = array[j] => i = j
    /\ status \in {"ok", "destroyed"} =>
         /\ \A p \in 1..Len(heap) : heap[p].nd <= 1
         /\ ~last.wild
    /\ status = "destroyed" => LivePayloads = {}

\* the step is the call op(..., elem) whose argument compares as rel and
\* whose result is r
IsCall(r, op, rel, elem) ==
    /\ Outcome(r)
    /\ last' = [op |-> op, rel |-> rel, elem |-> elem, ncopy |-> r.ncopy,
                ndestroy |-> r.ndestroy, oob |-> r.oob, wild |-> r.wild]

\* the word p is an owned copy of element x made by this step
IsNewCopy(p, x) ==
    IF x = NULL THEN p = NULL
    ELSE /\ p \in (Len(heap) + 1)..Len(heap')
         /\ heap'[p].val = x
         /\ heap'[p].nd = 0

\* the heap after each payload of ps was released once, nothing allocated
Released(ps) ==
    [p \in 1..Len(heap) |->
        IF p \in ps THEN [heap[p] EXCEPT !.nd = @ + 1] ELSE heap[p]]

\* slot i lies in the block before and after the step and kept its word
SlotKept(i) == i < capacity /\ i < capacity' /\ array'[i] = array[i]

\* the element of index i is untouched: its slot kept its word, or it lies
\* outside the block before and after the step
ElemKept(i) == SlotKept(i) \/ (i >= capacity /\ i >= capacity')

\* slot i of the block now holds the word slot j of the block held
SlotMoved(j, i) == j < capacity /\ i < capacity' /\ array'[i] = array[j]

\* what C2 states of a step that is vector_insert(position, x)
InsertPost(position, x) ==
    /\ status' = "ok"
    /\ size' = size + 1
    /\ position < capacity'
    /\ IsNewCopy(array'[position], x)
    /\ \A i \in 0..(position - 1) : SlotKept(i)
    /\ \A i \in position..(size - 1) : SlotMoved(i, i + 1)

\* C2: for every reachable state and every position in 0..size,
\* vector_insert(position, x) completes, increases size by 1, makes
\* get(position) a copy of x, keeps the elements of [0, position) and moves
\* the element of each index i in [position, size) unchanged to i + 1.
C2_InsertShiftsUp ==
    [][last'.op = "insert" =>
         \A position \in 0..size, x \in Elems, gs \in AllForeign :
            IsCall(vector_insert(Cur, position, x, gs),
                   "insert", Rel(position, size), x)
               => InsertPost(position, x)]_vars

\* what C3 states of a step that is vector_erase(position), position < size
ErasePost(position) ==
    /\ status' = "ok"
    /\ size' = size - 1
    /\ position < capacity
    /\ last'.ndestroy = 1 /\ ~last'.wild
    /\ heap' = Released({array[position]} \ {NULL})
    /\ \A i \in 0..(position - 1) : SlotKept(i)
    /\ \A i \in (position + 1)..(size - 1) : SlotMoved(i, i - 1)

\* C3: for every reachable state (size == capacity included) and every
\* position < size, vector_erase(position) destroys exactly the element at
\* position, decreases size by 1, keeps the elements of [0, position) and
\* moves the element of each index i in (position, size) unchanged to i - 1.
C3_EraseShiftsDown ==
    [][last'.op = "erase" =>
         \A position \in 0..(size - 1), gs \in AllForeign :
            IsCall(vector_erase(Cur, position, gs), "erase", "lt", NULL)
               => ErasePost(position)]_vars

\* C4: vector_pop_back on an empty vector fails fast: the process aborts,
\* size is not decremented, no slot is accessed and nothing is destroyed.
C4_PopBackEmptyFailsFast ==
    [][(last'.op = "pop_back" /\ size = 0) =>
         /\ status' = "aborted"
         /\ size' = size /\ array' = array /\ heap' = heap
         /\ ~last'.oob /\ last'.ndestroy = 0]_vars

\* what C5 states of a step that is vector_set(position, x), position <= size
SetPost(position, x) ==
    /\ status' = "ok"
    /\ position < capacity'
    /\ IsNewCopy(array'[position], x)
    /\ IF position < size
       THEN /\ size' = size
            /\ position < capacity
            /\ last'.ndestroy = 1 /\ ~last'.wild
            /\ \A p \in {array[position]} \ {NULL} :
                  heap'[p].nd = heap[p].nd + 1
       ELSE /\ size' = size + 1
            /\ last'.ndestroy = 0

\* C5: vector_set(position, x) overwrites or appends: with position < size
\* the old element is destroyed and replaced by a copy of x and size stays;
\* with position == size (size == capacity included) capacity is grown when
\* needed, a copy of x is stored at position inside the allocated slots and
\* size increases by 1; get(position) returns x afterward.
C5_SetOverwriteOrAppend ==
    [][last'.op = "set" =>
         \A position \in 0..size, x \in Elems, gs \in AllForeign :
            IsCall(vector_set(Cur, position, x, gs),
                   "set", Rel(position, size), x)
               => SetPost(position, x)]_vars

\* the payload the push of the i-th element (from 0) allocated, or NULL
CopyOfPush(i) ==
    IF log.pushed[i + 1] = NULL THEN NULL
    ELSE Cardinality({j \in 1..(i + 1) : log.pushed[j] # NULL})

\* C7: from a new vector, after N vector_push_back calls size equals N and
\* vector_get(i) returns, for every i < N, the live copy made of the i-th
\* pushed value, or NULL if that value was null.
C7_PushBackAppends ==
    log.only =>
       /\ size = Len(log.pushed)
       /\ \A i \in 0..(size - 1) :
             LET p == vector_get(Cur, i, NoGarbage)
             IN  /\ p = CopyOfPush(i)
                 /\ p # NULL => /\ p \in 1..Len(heap)
                                /\ heap[p].val = log.pushed[i + 1]
                                /\ heap[p].nd = 0

\* pushes beyond the initial capacity, null and non-null, after the block grew
C7_Witness ==
    /\ log.only /\ last.op = "push_back" /\ status = "ok"
    /\ Len(log.pushed) = INITIAL_CAPACITY + 1
    /\ capacity > INITIAL_CAPACITY
    /\ \E i, j \in 1..Len(log.pushed) :
          log.pushed[i] = NULL /\ log.pushed[j] # NULL /\ j <= INITIAL_CAPACITY

\* what C9 states of a step that is vector_reserve(n)
ReservePost(n) ==
    /\ status' = "ok"
    /\ n > capacity =>
          /\ IsPowerOf2(capacity') /\ capacity' >= n
          /\ \A k \in 0..SIZE_BITS : GROWTH_FACTOR ^ k >= n
                                        => capacity' <= GROWTH_FACTOR ^ k
    /\ n <= capacity => capacity' = capacity
    /\ capacity' >= n
    /\ size' = size
    /\ \A i \in 0..(size - 1) : ElemKept(i)
    /\ heap' = heap /\ last'.ncopy = 0 /\ last'.ndestroy = 0

\* C9: vector_reserve(n) with n > capacity makes capacity the smallest power
\* of 2 that is >= n, with n <= capacity leaves capacity unchanged; in both
\* cases capacity >= n afterward, size and the elements of [0, size) are
\* unchanged and neither the copy nor the destroy callback is invoked.
C9_ReserveGrowsOnly ==
    [][last'.op = "reserve" =>
         \A n \in NArgs :
            IsCall(vector_reserve(Cur, n), "reserve", Rel(n, capacity), NULL)
               => ReservePost(n)]_vars

\* what C10 states of a step that is vector_resize(n)
ResizePost(n) ==
    /\ status' = "ok"
    /\ size' = n
    /\ n < size =>
          /\ \A i \in 0..(n - 1) : SlotKept(i)
          /\ \A i \in n..(size - 1) :
                i < capacity /\ i < capacity' /\ array'[i] = NULL
          /\ heap' = Released({array[i] : i \in {j \in n..(size - 1) :
                                                    j < capacity}} \ {NULL})
          /\ last'.ndestroy = size - n /\ ~last'.wild
    /\ n > size => \A i \in 0..(size - 1) : ElemKept(i)
    /\ n = size => UNCHANGED <<array, size, capacity, heap>>

\* C10: vector_resize(n) always ends with size == n: with n < size exactly
\* the elements of [n, size) are destroyed and their slots cleared and the
\* elements of [0, n) are unchanged; with n > size the elements of
\* [0, old size) are unchanged; with n == size nothing changes.
C10_ResizeSetsSize ==
    [][last'.op = "resize" =>
         \A n \in NArgs, gs \in AllForeign :
            IsCall(vector_resize(Cur, n, gs), "resize", Rel(n, size), NULL)
               => ResizePost(n)]_vars

\* C11: after vector_reserve(v, n) with size <= n, the calls of
\* vector_push_back that follow it and keep size <= n change capacity zero
\* times.
C11_ReservedPushesKeepCapacity ==
    [][(last'.op = "push_back" /\ log.reserved # NoReserve
        /\ size' <= log.reserved) => capacity' = capacity]_vars

C11_Witness ==
    /\ status = "ok" /\ last.op = "push_back"
    /\ log.reserved > INITIAL_CAPACITY
    /\ size = log.reserved
    /\ capacity = GROWTH_FACTOR * INITIAL_CAPACITY

\* the words the slots [0, size) of the block hold
Elements == {array[i] : i \in UsedSlots}

\* C12: vector_clear destroys every element at [0, size), sets size to 0 and
\* leaves capacity unchanged, and the state it leaves is the state of a
\* freshly created vector of that capacity (every slot NULL), so that every
\* following sequence of operations behaves the same in both.
ClearPost ==
    /\ status' = "ok"
    /\ size' = 0
    /\ capacity' = capacity
    /\ heap' = Released(Elements \ {NULL})
    /\ array' = [i \in 0..(capacity - 1) |-> NULL]

C12_ClearLeavesFreshVector ==
    [][last'.op = "clear" => ClearPost]_vars

\* C13: vector_set with position > size and vector_erase with
\* position >= size leave size, capacity and every slot unchanged and invoke
\* neither the copy nor the destroy callback.
IsBeyond ==
    \/ last'.op = "set" /\ last'.rel = "gt"
    \/ last'.op = "erase" /\ last'.rel \in {"eq", "gt"}

C13_OutOfRangeWritesAreNoOps ==
    [][IsBeyond => /\ UNCHANGED <<array, size, capacity, heap>>
                   /\ last'.ncopy = 0 /\ last'.ndestroy = 0
                   /\ status' = "ok"]_vars

C13_Witness ==
    /\ status = "ok" /\ last.op = "erase" /\ last.rel = "eq"
    /\ size = INITIAL_CAPACITY /\ capacity = INITIAL_CAPACITY
    /\ LivePayloads # {}

\* C14: capacity never decreases and changes only on growth: only a
\* vector_push_back, a vector_insert or an appending vector_set that finds
\* size == capacity, a vector_reserve(n) with n > capacity, or a growing
\* vector_resize change it; vector_pop_back, vector_erase, vector_clear, a
\* vector_resize that does not grow and an overwriting vector_set leave it
\* unchanged.
MayChangeCapacity ==
    \/ last'.op \in {"push_back", "insert"} /\ size = capacity
    \/ last'.op = "set" /\ last'.rel = "eq" /\ size = capacity
    \/ last'.op = "reserve" /\ last'.rel = "gt"
    \/ last'.op = "resize" /\ last'.rel = "gt"

C14_CapacityChangesOnlyOnGrowth ==
    [][/\ capacity' >= capacity
       /\ capacity' # capacity => MayChangeCapacity]_vars

\* the smallest power of 2 that is >= n
SmallestPowerOf2(n) ==
    LET S == {p \in 1..SIZE_MOD : IsPowerOf2(p) /\ p >= n}
    IN  CHOOSE p \in S : \A q \in S : p <= q

\* C15: vector_create returns a vector with size 0, capacity 8 and all 8
\* slots empty; a vector_push_back or vector_insert performed when
\* size == capacity == c sets capacity to the smallest power of 2 that is
\* >= c + 1.
CreatePost ==
    /\ size = 0
    /\ capacity = 8
    /\ array = [i \in 0..7 |-> NULL]

GrowPost ==
    (last'.op \in {"push_back", "insert"} /\ size = capacity)
        => capacity' = SmallestPowerOf2(capacity + 1)

C15_CreateAndImplicitGrowth ==
    [](last.op = "create" => CreatePost) /\ [][GrowPost]_vars

C15_Witness ==
    /\ status = "ok" /\ last.op = "insert"
    /\ size = INITIAL_CAPACITY + 1
    /\ capacity = 16

\* C16: in every operation called with arguments that meet its input
\* constraints, every slot index read or written lies in [0, capacity) of
\* the current block; the shifting loops of vector_insert and vector_erase
\* and the append branch of vector_set never touch index -1 or capacity.
C16_SlotAccessesInBlock == ~last.oob

\* the payloads this step allocated
NewPayloads == (Len(heap) + 1)..Len(heap')

\* what C17 states of a step that is vector_resize(n) with n > size
GrowPost17(n) ==
    /\ status' = "ok"
    /\ capacity' = IF n > capacity THEN SmallestPowerOf2(n) ELSE capacity
    /\ Len(heap') = Len(heap) + 2 * (n - size)
    /\ \A p \in 1..Len(heap) : heap'[p] = heap[p]
    /\ \A i \in size..(n - 1) :
          /\ i < capacity'
          /\ array'[i] \in NewPayloads
          /\ heap'[array'[i]] = [val |-> DefaultVal, nd |-> 0]
          /\ \A j \in size..(n - 1) : array'[j] = array'[i] => j = i
    /\ \A p \in NewPayloads \ {array'[i] : i \in size..(n - 1)} :
          heap'[p] = [val |-> DefaultVal, nd |-> 1]
    /\ last'.ncopy = n - size /\ last'.ndestroy = n - size

\* C17: a vector_resize(n) with n > size reserves capacity for n once, so
\* that no append reallocates; for each new slot it default-constructs one
\* temporary, stores a copy of it and destroys the temporary: each slot of
\* [old size, n) holds a live owned copy of the default element and no
\* default-constructed payload is left undestroyed.
C17_ResizeGrowsWithDefaultCopies ==
    [][(last'.op = "resize" /\ last'.rel = "gt") =>
         \A n \in NArgs :
            IsCall(vector_resize(Cur, n, NoGarbage), "resize", Rel(n, size), NULL)
               => GrowPost17(n)]_vars

C17_Witness ==
    /\ status = "ok" /\ last.op = "resize" /\ last.rel = "gt"
    /\ last.ncopy = 2
    /\ size = INITIAL_CAPACITY + 1
    /\ capacity = 16
    /\ Cardinality(LivePayloads) = 2

\* C18: for every target of the w-bit size type get_new_capacity(target)
\* terminates and returns a power of 2 that is >= target, the doubling never
\* wrapping to 0, and so vector_reserve(n) terminates for every n.
C18_CapacityComputationTerminates ==
    /\ gnc.new_capacity # NotCalled =>
          /\ gnc.new_capacity # DIVERGES
          /\ IsPowerOf2(gnc.new_capacity)
          /\ gnc.new_capacity >= gnc.target
    /\ status # "hung"
====
